---- MODULE Spec2Model ----
(***************************************************************************)
(* Model of the playwrightBDD scaffold: the BrowserManager singleton       *)
(* (utils/browserManager.ts), the cucumber lifecycle hooks                  *)
(* (support/hooks.ts), the CustomWorld helpers the hooks call               *)
(* (support/testContext.ts) and the deepMerge utility                       *)
(* (utils/testDataManager.ts).                                              *)
(*                                                                         *)
(* The cucumber runner is modelled by the order in which it calls hooks:   *)
(* Before hooks in definition order, skipped once an earlier hook or step   *)
(* of the scenario has not passed; steps; After hooks always.               *)
(***************************************************************************)
EXTENDS Integers, Sequences, FiniteSets, TLC

\* ---------------------------------------------------------------- bounds
MaxScenarios == 4
MaxSteps == 2

\* ------------------------------------------------------------- constants
Null == 0
Features == {"a.feature", "b.feature"}
NoUri == "null"
InitFailures == {"none", "launch", "newContext", "tracingStart", "newPage"}
CleanupFailures == {"none", "tracingStop", "pageClose", "contextClose", "browserClose"}
StepOutcomes == {"PASSED", "FAILED", "SKIPPED", "PENDING", "UNDEFINED"}
EnvDebugValues == {"unset", "true", "other"}

VARIABLES
    pc,                 \* position of the cucumber run
    browserManager,     \* the BrowserManager singleton's fields
    playwright,         \* the driver: launch counter and what is still open
    recordTrace,        \* BrowserConfig.recordTrace
    driverFails,        \* whether calls into the driver and the file system can throw in this run
    currentFeatureUri,  \* module variable of the hooks file
    scenario,           \* the scenario being run
    world,              \* its CustomWorld
    debugConsole,       \* process.env.DEBUG_CONSOLE
    events,             \* what the hooks and steps of this scenario did, in order
    lastCleanup,        \* observation of the latest cleanup() call
    lastAfter,          \* observation of the latest After hook
    prev,               \* observation of the previous scenario
    startedUris,        \* feature files whose scenarios were started
    scenariosRun,
    merge,              \* a deepMerge call: its arguments and its result
    fn,                 \* a call of one of the helper functions: arguments, progress, result
    testDataManager,    \* the TestDataManager singleton: its generatedData map
    lastStored,         \* per key, what was stored last since the latest clearStoredData()
    configError         \* whether validateConfig() threw in BeforeAll

vars == <<pc, browserManager, playwright, recordTrace, driverFails, currentFeatureUri,
          scenario, world, debugConsole, events, lastCleanup, lastAfter,
          prev, startedUris, scenariosRun, merge, fn, testDataManager, lastStored,
          configError>>

\* ------------------------------------------------------- BrowserManager

\* isReady(): isInitialized && page !== null
isReady(bm) == bm.isInitialized /\ bm.page # Null

\* browser.close() also closes the browser's contexts and pages
CloseBrowser(pw, b) ==
    [pw EXCEPT !.browsers = @ \ {b}, !.contexts = @ \ {b}, !.pages = @ \ {b}]

\* context.close() also closes the context's pages
CloseContext(pw, c) == [pw EXCEPT !.contexts = @ \ {c}, !.pages = @ \ {c}]

ClosePage(pw, p) == [pw EXCEPT !.pages = @ \ {p}]

\* createContext(): the context of browser b is identified by b
createContext(bm, pw, trace, fail) ==
    IF bm.browser = Null \/ fail = "newContext"
    THEN [bm |-> bm, pw |-> pw, threw |-> TRUE]
    ELSE LET bm1 == [bm EXCEPT !.context = bm.browser]
             pw1 == [pw EXCEPT !.contexts = @ \cup {bm.browser}]
         IN  [bm |-> bm1, pw |-> pw1, threw |-> trace /\ fail = "tracingStart"]

\* createPage(): the page of context c is identified by c
createPage(bm, pw, fail) ==
    IF bm.context = Null \/ fail = "newPage"
    THEN [bm |-> bm, pw |-> pw, threw |-> TRUE]
    ELSE [bm |-> [bm EXCEPT !.page = bm.context],
          pw |-> [pw EXCEPT !.pages = @ \cup {bm.context}],
          threw |-> FALSE]

\* Faulty variant: without the isInitialized guard
initializeBrowser_NoGuard(bm, pw, trace, fail) ==
    IF fail = "launch"
    THEN [bm |-> bm, pw |-> pw, threw |-> TRUE, launched |-> FALSE]
    ELSE LET id == pw.launched + 1
             bm1 == [bm EXCEPT !.browser = id]
             pw1 == [pw EXCEPT !.launched = id, !.browsers = @ \cup {id}]
             c == createContext(bm1, pw1, trace, fail)
             p == createPage(c.bm, c.pw, fail)
         IN  IF c.threw
             THEN [bm |-> c.bm, pw |-> c.pw, threw |-> TRUE, launched |-> TRUE]
             ELSE IF p.threw
             THEN [bm |-> p.bm, pw |-> p.pw, threw |-> TRUE, launched |-> TRUE]
             ELSE [bm |-> [p.bm EXCEPT !.isInitialized = TRUE], pw |-> p.pw,
                   threw |-> FALSE, launched |-> TRUE]

\* initializeBrowser(): no-op when initialized; otherwise launch, context,
\* page; any failure is logged and rethrown with the fields as they are.
initializeBrowser(bm, pw, trace, fail) ==
    IF bm.isInitialized
    THEN [bm |-> bm, pw |-> pw, threw |-> FALSE, launched |-> FALSE]
    ELSE IF fail = "launch"
    THEN [bm |-> bm, pw |-> pw, threw |-> TRUE, launched |-> FALSE]
    ELSE LET id == pw.launched + 1
             bm1 == [bm EXCEPT !.browser = id]
             pw1 == [pw EXCEPT !.launched = id, !.browsers = @ \cup {id}]
             c == createContext(bm1, pw1, trace, fail)
             p == createPage(c.bm, c.pw, fail)
         IN  IF c.threw
             THEN [bm |-> c.bm, pw |-> c.pw, threw |-> TRUE, launched |-> TRUE]
             ELSE IF p.threw
             THEN [bm |-> p.bm, pw |-> p.pw, threw |-> TRUE, launched |-> TRUE]
             ELSE [bm |-> [p.bm EXCEPT !.isInitialized = TRUE], pw |-> p.pw,
                   threw |-> FALSE, launched |-> TRUE]

\* The try block of cleanup(): each close is attempted in turn and the
\* first one that fails leaves the rest of the block undone.
cleanupBody(bm, pw, trace, fail) ==
    IF trace /\ bm.context # Null /\ fail = "tracingStop"
    THEN [bm |-> bm, pw |-> pw, error |-> TRUE]
    ELSE IF bm.page # Null /\ fail = "pageClose"
    THEN [bm |-> bm, pw |-> pw, error |-> TRUE]
    ELSE LET bm1 == [bm EXCEPT !.page = Null]
             pw1 == IF bm.page # Null THEN ClosePage(pw, bm.page) ELSE pw
         IN  IF bm1.context # Null /\ fail = "contextClose"
             THEN [bm |-> bm1, pw |-> pw1, error |-> TRUE]
             ELSE LET bm2 == [bm1 EXCEPT !.context = Null]
                      pw2 == IF bm1.context # Null
                             THEN CloseContext(pw1, bm1.context) ELSE pw1
                  IN  IF bm2.browser # Null /\ fail = "browserClose"
                      THEN [bm |-> bm2, pw |-> pw2, error |-> TRUE]
                      ELSE [bm |-> [bm2 EXCEPT !.browser = Null,
                                               !.isInitialized = FALSE],
                            pw |-> IF bm2.browser # Null
                                   THEN CloseBrowser(pw2, bm2.browser) ELSE pw2,
                            error |-> FALSE]

\* Faulty variant: a catch block that rethrows what it caught
cleanupCatch_Rethrow(error) == error

\* The catch block of cleanup(): the error is logged, nothing is rethrown.
cleanupCatch(error) == FALSE

cleanup(bm, pw, trace, fail) ==
    LET r == cleanupBody(bm, pw, trace, fail)
    IN  [bm |-> r.bm, pw |-> r.pw, error |-> r.error, threw |-> cleanupCatch(r.error)]


\* ---------------------------------------------------------- CustomWorld

EmptyData == [k \in {} |-> 0]

\* setScenarioData(key, value): Map.set
setScenarioData(data, key, value) ==
    [k \in DOMAIN data \cup {key} |-> IF k = key THEN value ELSE data[k]]

\* getScenarioData(key): Map.get, undefined (Null) for a key that is not set
getScenarioData(data, key) == IF key \in DOMAIN data THEN data[key] ELSE Null

\* Faulty variant: the map is left as it is
clearScenarioData_Keep(data) == data

\* clearScenarioData(): Map.clear
clearScenarioData(data) == EmptyData

\* ------------------------------------------- TestDataManager data storage

\* private generatedData: Map<string, any> = new Map()
NewTestDataManager == [generatedData |-> EmptyData]

\* Faulty variant: the map is replaced by one that holds the new entry only
storeData_Replace(tdm, key, data) ==
    [tdm EXCEPT !.generatedData = [k \in {key} |-> data]]

\* storeData(key, data): Map.set
storeData(tdm, key, data) ==
    [tdm EXCEPT !.generatedData =
        [k \in DOMAIN @ \cup {key} |-> IF k = key THEN data ELSE @[k]]]

\* retrieveData(key): Map.get, undefined (Null) for a key that is not stored
retrieveData(tdm, key) ==
    IF key \in DOMAIN tdm.generatedData THEN tdm.generatedData[key] ELSE Null

\* clearStoredData(): Map.clear
clearStoredData(tdm) == [tdm EXCEPT !.generatedData = EmptyData]

\* initializePage(): initialize the browser unless ready, then take getPage()
initializePage(w, bm, pw, trace, fail) ==
    LET i == IF isReady(bm)
             THEN [bm |-> bm, pw |-> pw, threw |-> FALSE, launched |-> FALSE]
             ELSE initializeBrowser(bm, pw, trace, fail)
    IN  [world |-> IF i.threw THEN w ELSE [w EXCEPT !.page = i.bm.page],
         bm |-> i.bm, pw |-> i.pw, threw |-> i.threw,
         events |-> (IF i.launched THEN <<"launch">> ELSE <<>>)
                    \o (IF isReady(bm) THEN <<>> ELSE <<"init">>)]

\* takeScreenshot(): null without a page or when page.screenshot() throws,
\* the path otherwise. TRUE stands for a path.
takeScreenshot(bm, shotFails) ==
    IF bm.page = Null THEN FALSE
    ELSE IF shotFails THEN FALSE
    ELSE TRUE

\* attachScreenshot(): attach the file if a path came back and the world has
\* a page; a failed read is logged.
attachScreenshot(w, bm, shotFails, readFails) ==
    LET path == takeScreenshot(bm, shotFails)
    IN  IF path /\ w.page # Null /\ ~readFails
        THEN [world |-> [w EXCEPT !.attachments = @ + 1], threw |-> FALSE]
        ELSE [world |-> w, threw |-> FALSE]

\* ------------------------------------------------------------- deepMerge

\* bound: the primitive values are 1..MaxPrim
MaxPrim == 1

Keys == {"a", "b"}
Indices == <<"0", "1">>
AllKeys == Keys \cup {Indices[i] : i \in 1..Len(Indices)}

NoFields == [k \in {} |-> 0]

\* JavaScript values: t is what typeof and the null/undefined tests see
Prim(p) == [t |-> "prim", v |-> p, f |-> NoFields]
JsNull == [t |-> "null", v |-> 0, f |-> NoFields]
Undefined == [t |-> "undefined", v |-> 0, f |-> NoFields]
Obj(fields) == [t |-> "obj", v |-> 0, f |-> fields]
Arr(fields) == [t |-> "arr", v |-> 0, f |-> fields]

Prims == {Prim(p) : p \in 1..MaxPrim}
Leaves == Prims \cup {JsNull, Undefined}

FieldsOver(keys, vals) == UNION {[d -> vals] : d \in SUBSET keys}

\* arrays of primitives, by index
Arrays == {Arr(fs) : fs \in UNION {[{Indices[i] : i \in 1..n} -> Prims] : n \in 0..Len(Indices)}}
InnerObjects == {Obj(fs) : fs \in FieldsOver(Keys, Leaves)}
InnerValues == Leaves \cup InnerObjects \cup Arrays
Objects == {Obj(fs) : fs \in FieldsOver(Keys, InnerValues)}

\* typeof x === 'object' && x !== null
IsObject(x) == x.t \in {"obj", "arr"}

\* x[key]: undefined for a key the object does not have
Get(x, key) == IF key \in DOMAIN x.f THEN x.f[key] ELSE Undefined

RECURSIVE deepMerge(_, _)

\* Faulty variant: a shallow merge: an override object replaces the target object
deepMerge_Shallow(target, source) ==
    LET set == {k \in DOMAIN source.f : source.f[k] # Undefined}
    IN  Obj([k \in DOMAIN target.f \cup set |->
                IF k \in set THEN source.f[k] ELSE target.f[k]])

\* deepMerge(target, source): result = {...target}; every key of source
\* whose value is not undefined is merged recursively when both sides are
\* non-null objects and assigned otherwise.
deepMerge(target, source) ==
    LET set == {k \in DOMAIN source.f : source.f[k] # Undefined}
    IN  Obj([k \in DOMAIN target.f \cup set |->
                IF k \in set
                THEN IF IsObject(source.f[k]) /\ IsObject(Get(target, k))
                     THEN deepMerge(target.f[k], source.f[k])
                     ELSE source.f[k]
                ELSE target.f[k]])

NoCall == [op |-> "none"]

NoMerge == [target |-> Obj(NoFields), source |-> Obj(NoFields),
            result |-> Obj(NoFields), done |-> FALSE]

\* ----------------------------------------------------------- ConfigManager

\* Strings are sequences of characters. An environment variable is either
\* unset or holds a string.
Unset == [set |-> FALSE, s |-> <<>>]
Env(str) == [set |-> TRUE, s |-> str]

\* JavaScript numbers as far as parseInt and < need them
NaN == [nan |-> TRUE, n |-> 0]
Num(n) == [nan |-> FALSE, n |-> n]

\* a < b in JavaScript: false when either side is NaN
JsLess(a, b) == ~a.nan /\ ~b.nan /\ a.n < b.n

Digits == <<"0", "1", "2", "3", "4", "5", "6", "7", "8", "9">>
IsDigit(c) == \E d \in 1..Len(Digits) : Digits[d] = c
DigitValue(c) == (CHOOSE d \in 1..Len(Digits) : Digits[d] = c) - 1

RECURSIVE ParseDigits(_, _, _)
\* the value of the longest run of digits of str starting at position i
ParseDigits(str, i, acc) ==
    IF i > Len(str) \/ ~IsDigit(str[i]) THEN acc
    ELSE ParseDigits(str, i + 1, acc * Len(Digits) + DigitValue(str[i]))

\* parseInt(str): optional sign, then the leading digits; NaN without any
parseInt(str) ==
    LET signed == Len(str) >= 1 /\ str[1] \in {"-", "+"}
        first == IF signed THEN 2 ELSE 1
        magnitude == ParseDigits(str, first, 0)
    IN  IF first > Len(str) \/ ~IsDigit(str[first]) THEN NaN
        ELSE IF signed /\ str[1] = "-" THEN Num(0 - magnitude)
        ELSE Num(magnitude)

\* process.env.X || fallback: the fallback for an unset or empty variable
OrDefault(var, fallback) == IF var.set /\ var.s # <<>> THEN var.s ELSE fallback

\* str.startsWith(prefix)
startsWith(str, prefix) ==
    Len(str) >= Len(prefix) /\ SubSeq(str, 1, Len(prefix)) = prefix

Chromium == <<"c", "h", "r", "o", "m", "i", "u", "m">>
Firefox == <<"f", "i", "r", "e", "f", "o", "x">>
Webkit == <<"w", "e", "b", "k", "i", "t">>
Chrome == <<"c", "h", "r", "o", "m", "e">>
Http == <<"h", "t", "t", "p">>
DefaultBaseURL == <<"h", "t", "t", "p", ":", "/", "/", "l", "o", "c", "a", "l", "h", "o", "s", "t", ":", "3", "0", "0", "0">>
DefaultWidth == <<"1", "9", "2", "0">>
DefaultHeight == <<"1", "0", "8", "0">>

validBrowsers == {Chromium, Firefox, Webkit, Chrome}

\* getBrowserConfig(): browser and viewport
getBrowserConfig(env) ==
    [browser |-> OrDefault(env.BROWSER, Chromium),
     width |-> parseInt(OrDefault(env.VIEWPORT_WIDTH, DefaultWidth)),
     height |-> parseInt(OrDefault(env.VIEWPORT_HEIGHT, DefaultHeight))]

\* getTestConfig(): baseURL
getTestConfig(env) == [baseURL |-> OrDefault(env.BASE_URL, DefaultBaseURL)]

MinWidth == 320
MinHeight == 240

\* validateConfig(): TRUE when it throws
validateConfig(env) ==
    LET browserConfig == getBrowserConfig(env)
        testConfig == getTestConfig(env)
    IN  IF browserConfig.browser \notin validBrowsers THEN TRUE
        ELSE IF ~startsWith(testConfig.baseURL, Http) THEN TRUE
        ELSE JsLess(browserConfig.width, Num(MinWidth))
             \/ JsLess(browserConfig.height, Num(MinHeight))

\* environments: valid, unset, empty, unknown, non-numeric and boundary values
BrowserEnvs == {Unset, Env(<<>>), Env(Chromium), Env(Firefox), Env(Webkit),
                Env(Chrome), Env(<<"C", "h", "r", "o", "m", "e">>), Env(<<"s", "a", "f", "a", "r", "i">>)}
BaseUrlEnvs == {Unset, Env(<<>>), Env(<<"h", "t", "t", "p", "s", ":", "/", "/", "x", ".", "i", "o">>), Env(<<"h", "t", "t", "p", "x">>),
                Env(<<"f", "t", "p", ":", "/", "/", "x", ".", "i", "o">>), Env(<<"x", ".", "i", "o", "/", "h", "t", "t", "p">>)}
WidthEnvs == {Unset, Env(<<>>), Env(<<"3", "1", "9">>), Env(<<"3", "2", "0">>), Env(<<"1", "9", "2", "0">>),
              Env(<<"a", "b", "c">>), Env(<<"3", "2", "0", "p", "x">>), Env(<<"-", "3", "2", "0">>)}
HeightEnvs == {Unset, Env(<<"2", "3", "9">>), Env(<<"2", "4", "0">>), Env(<<"t", "a", "l", "l">>), Env(<<"0">>)}

Environments ==
    [BROWSER : BrowserEnvs, BASE_URL : BaseUrlEnvs,
     VIEWPORT_WIDTH : WidthEnvs, VIEWPORT_HEIGHT : HeightEnvs]

\* ----------------------------------------------------------------- hooks

NoCleanup == [called |-> FALSE, error |-> FALSE, threw |-> FALSE,
              bmAfter |-> [browser |-> Null, context |-> Null, page |-> Null,
                           isInitialized |-> FALSE],
              next |-> "none"]

\* Faulty variant: the hook initializes before it cleans up
FeatureBeforeHook_InitFirst(cfu, uri, bm, pw, trace, cf, inf) ==
    IF cfu = uri
    THEN [bm |-> bm, pw |-> pw, cfu |-> cfu, threw |-> FALSE, events |-> <<>>,
          mustClean |-> FALSE, obs |-> NoCleanup, cleaned |-> FALSE]
    ELSE LET doClean == cfu # NoUri /\ isReady(bm)
             i == initializeBrowser(bm, pw, trace, inf)
             c == IF doClean /\ ~i.threw THEN cleanup(i.bm, i.pw, trace, cf)
                  ELSE [bm |-> i.bm, pw |-> i.pw, error |-> FALSE, threw |-> FALSE]
         IN  [bm |-> c.bm, pw |-> c.pw,
              cfu |-> IF i.threw THEN cfu ELSE uri,
              threw |-> i.threw,
              events |-> (IF i.launched THEN <<"launch">> ELSE <<>>)
                         \o <<"init">>
                         \o (IF doClean /\ ~i.threw THEN <<"cleanup">> ELSE <<>>),
              mustClean |-> doClean,
              obs |-> [called |-> TRUE, error |-> c.error, threw |-> c.threw,
                       bmAfter |-> c.bm, next |-> "none"],
              cleaned |-> doClean /\ ~i.threw]

\* Faulty variant: the hook forgets the feature it set up: every scenario is
\* treated as the first of a new feature
FeatureBeforeHook_EveryScenario(cfu, uri, bm, pw, trace, cf, inf) ==
    LET doClean == cfu # NoUri /\ isReady(bm)
        c == IF doClean THEN cleanup(bm, pw, trace, cf)
             ELSE [bm |-> bm, pw |-> pw, error |-> FALSE, threw |-> FALSE]
        i == initializeBrowser(c.bm, c.pw, trace, inf)
    IN  [bm |-> i.bm, pw |-> i.pw,
         cfu |-> IF i.threw THEN cfu ELSE uri,
         threw |-> i.threw,
         events |-> (IF doClean THEN <<"cleanup">> ELSE <<>>)
                    \o (IF i.launched THEN <<"launch">> ELSE <<>>)
                    \o <<"init">>,
         mustClean |-> doClean,
         obs |-> [called |-> TRUE, error |-> c.error, threw |-> c.threw,
                  bmAfter |-> c.bm,
                  next |-> IF i.launched /\ ~i.threw THEN "launched"
                           ELSE IF i.threw THEN "failed" ELSE "noop"],
         cleaned |-> doClean]

\* Faulty variant: the feature URI is recorded before the browser is
\* initialized
FeatureBeforeHook_RecordFirst(cfu, uri, bm, pw, trace, cf, inf) ==
    LET doClean == cfu # NoUri /\ cfu # uri /\ isReady(bm)
        c == IF doClean THEN cleanup(bm, pw, trace, cf)
             ELSE [bm |-> bm, pw |-> pw, error |-> FALSE, threw |-> FALSE]
        i == IF cfu = uri
             THEN [bm |-> bm, pw |-> pw, threw |-> FALSE, launched |-> FALSE]
             ELSE initializeBrowser(c.bm, c.pw, trace, inf)
    IN  [bm |-> i.bm, pw |-> i.pw, cfu |-> uri, threw |-> i.threw,
         events |-> IF cfu = uri THEN <<>>
                    ELSE (IF doClean THEN <<"cleanup">> ELSE <<>>)
                         \o (IF i.launched THEN <<"launch">> ELSE <<>>) \o <<"init">>,
         mustClean |-> doClean,
         obs |-> [called |-> doClean, error |-> c.error, threw |-> c.threw,
                  bmAfter |-> c.bm,
                  next |-> IF i.launched /\ ~i.threw THEN "launched"
                           ELSE IF i.threw THEN "failed" ELSE "noop"],
         cleaned |-> doClean]

\* Feature-level Before hook: on a new feature URI clean up the previous
\* browser if one is ready, initialize, and record the URI.
FeatureBeforeHook(cfu, uri, bm, pw, trace, cf, inf) ==
    IF cfu = uri
    THEN [bm |-> bm, pw |-> pw, cfu |-> cfu, threw |-> FALSE, events |-> <<>>,
          mustClean |-> FALSE, obs |-> NoCleanup, cleaned |-> FALSE]
    ELSE LET doClean == cfu # NoUri /\ isReady(bm)
             c == IF doClean THEN cleanup(bm, pw, trace, cf)
                  ELSE [bm |-> bm, pw |-> pw, error |-> FALSE, threw |-> FALSE]
             i == initializeBrowser(c.bm, c.pw, trace, inf)
             obs == [called |-> TRUE, error |-> c.error, threw |-> c.threw,
                     bmAfter |-> c.bm,
                     next |-> IF i.launched /\ ~i.threw THEN "launched"
                              ELSE IF i.threw THEN "failed" ELSE "noop"]
         IN  IF c.threw
             THEN [bm |-> c.bm, pw |-> c.pw, cfu |-> cfu, threw |-> TRUE,
                   events |-> <<"cleanup">>, mustClean |-> doClean,
                   obs |-> [obs EXCEPT !.next = "none"], cleaned |-> doClean]
             ELSE [bm |-> i.bm, pw |-> i.pw,
                   cfu |-> IF i.threw THEN cfu ELSE uri,
                   threw |-> i.threw,
                   events |-> (IF doClean THEN <<"cleanup">> ELSE <<>>)
                              \o (IF i.launched THEN <<"launch">> ELSE <<>>)
                              \o <<"init">>,
                   mustClean |-> doClean, obs |-> obs, cleaned |-> doClean]

NoScenario == [uri |-> NoUri, debugTag |-> FALSE, status |-> "PASSED",
               stepsRun |-> 0, hooksOk |-> FALSE, mustClean |-> FALSE]

NewWorld == [page |-> Null, scenarioData |-> EmptyData, attachments |-> 0]

NoAfter == [ran |-> FALSE, status |-> "PASSED", attempted |-> FALSE,
            threw |-> FALSE, shotFailed |-> FALSE]

NoPrev == [uri |-> NoUri, hooksOk |-> FALSE, featureHookThrew |-> FALSE, page |-> Null,
           bm |-> [browser |-> Null, context |-> Null, page |-> Null,
                   isInitialized |-> FALSE]]

Init ==
    /\ pc = "beforeAll"
    /\ browserManager = [browser |-> Null, context |-> Null, page |-> Null,
                         isInitialized |-> FALSE]
    /\ playwright = [launched |-> 0, browsers |-> {}, contexts |-> {}, pages |-> {}]
    /\ recordTrace \in BOOLEAN
    /\ driverFails \in BOOLEAN
    /\ currentFeatureUri = NoUri
    /\ scenario = NoScenario
    /\ world = NewWorld
    /\ debugConsole \in EnvDebugValues
    /\ events = <<>>
    /\ lastCleanup = NoCleanup
    /\ lastAfter = NoAfter
    /\ prev = NoPrev
    /\ startedUris = {}
    /\ scenariosRun = 0
    /\ merge = NoMerge
    /\ fn = NoCall
    /\ testDataManager = NewTestDataManager
    /\ lastStored = EmptyData
    /\ configError = FALSE

\* what the awaited driver calls of one hook or step can do in this run
InitFaults == IF driverFails THEN InitFailures ELSE {"none"}
CleanupFaults == IF driverFails THEN CleanupFailures ELSE {"none"}
FileFaults == IF driverFails THEN BOOLEAN ELSE {FALSE}

\* Faulty variant: the catch block logs the error and does not rethrow it
BeforeAllHook_NoRethrow(env) ==
    [configError |-> validateConfig(env), threw |-> FALSE]

\* The try/catch of BeforeAll around validateConfig(): the error is logged
\* and rethrown. The report directories made afterwards are not modelled
\* (every mkdir error is swallowed).
BeforeAllHook(env) ==
    [configError |-> validateConfig(env), threw |-> validateConfig(env)]

\* BeforeAll under any environment: a hook that throws aborts the run
\* before any scenario.
BeforeAll ==
    /\ pc = "beforeAll"
    /\ \E env \in Environments :
          LET h == BeforeAllHook(env)
          IN  /\ configError' = h.configError
              /\ pc' = IF h.threw THEN "aborted" ELSE "ready"
    /\ UNCHANGED <<merge, fn, testDataManager, lastStored, driverFails, browserManager,
                   playwright, recordTrace, currentFeatureUri,
                   scenario, world, debugConsole, events, lastCleanup,
                   lastAfter, prev, startedUris, scenariosRun>>

\* The runner picks the next scenario (any feature file, any order) and
\* constructs its world.
StartScenario ==
    /\ pc = "ready"
    /\ scenariosRun < MaxScenarios
    /\ \E uri \in Features, dbg \in BOOLEAN :
          scenario' = [NoScenario EXCEPT !.uri = uri, !.debugTag = dbg]
    /\ world' = NewWorld
    /\ events' = <<>>
    /\ startedUris' = startedUris \cup {scenario'.uri}
    /\ scenariosRun' = scenariosRun + 1
    /\ pc' = "featureBefore"
    /\ UNCHANGED <<configError, merge, fn, testDataManager, lastStored, driverFails, browserManager, playwright, recordTrace, currentFeatureUri,
                   debugConsole, lastCleanup, lastAfter, prev>>

FeatureBefore ==
    /\ pc = "featureBefore"
    /\ \E cf \in CleanupFaults, inf \in InitFaults :
          LET h == FeatureBeforeHook(currentFeatureUri, scenario.uri,
                                     browserManager, playwright, recordTrace, cf, inf)
          IN  /\ browserManager' = h.bm
              /\ playwright' = h.pw
              /\ currentFeatureUri' = h.cfu
              /\ events' = events \o h.events
              /\ lastCleanup' = IF h.cleaned THEN h.obs ELSE lastCleanup
              /\ scenario' = [scenario EXCEPT
                                !.mustClean = h.mustClean,
                                !.status = IF h.threw THEN "FAILED" ELSE @]
              /\ pc' = IF h.threw THEN "after" ELSE "scenarioBefore"
    /\ UNCHANGED <<configError, merge, fn, testDataManager, lastStored, driverFails, recordTrace, world, debugConsole, lastAfter, prev,
                   startedUris, scenariosRun>>

\* Scenario-level Before hook: store the scenario info, initializePage()
ScenarioBefore ==
    /\ pc = "scenarioBefore"
    /\ \E inf \in InitFaults :
          LET d1 == setScenarioData(world.scenarioData, "scenarioName", scenariosRun)
              d2 == setScenarioData(d1, "scenarioTags", scenariosRun)
              d3 == setScenarioData(d2, "startTime", scenariosRun)
              w1 == [world EXCEPT !.scenarioData = d3]
              r == initializePage(w1, browserManager, playwright, recordTrace, inf)
          IN  /\ world' = r.world
              /\ browserManager' = r.bm
              /\ playwright' = r.pw
              /\ events' = events \o r.events
              /\ scenario' = [scenario EXCEPT
                                !.hooksOk = ~r.threw,
                                !.status = IF r.threw THEN "FAILED" ELSE @]
              /\ pc' = IF r.threw THEN "after" ELSE "tagBefore"
    /\ UNCHANGED <<configError, merge, fn, testDataManager, lastStored, driverFails, recordTrace, currentFeatureUri, debugConsole, lastCleanup,
                   lastAfter, prev, startedUris, scenariosRun>>

\* Tag hooks: only Before({tags: '@debug'}) changes state.
TagBefore ==
    /\ pc = "tagBefore"
    /\ debugConsole' = IF scenario.debugTag THEN "true" ELSE debugConsole
    /\ pc' = "steps"
    /\ UNCHANGED <<configError, merge, fn, testDataManager, lastStored, driverFails, browserManager, playwright, recordTrace, currentFeatureUri,
                   scenario, world, events, lastCleanup, lastAfter, prev,
                   startedUris, scenariosRun>>


\* A step; the navigation steps call initializePage() first. A step that
\* does not pass ends the scenario's steps.
RunStep ==
    /\ pc = "steps"
    /\ scenario.stepsRun < MaxSteps
    /\ \E outcome \in StepOutcomes, callsInit \in BOOLEAN, inf \in InitFaults :
          LET r == IF callsInit
                   THEN initializePage(world, browserManager, playwright, recordTrace, inf)
                   ELSE [world |-> world, bm |-> browserManager, pw |-> playwright,
                         threw |-> FALSE, events |-> <<>>]
              result == IF r.threw THEN "FAILED" ELSE outcome
          IN  /\ world' = r.world
              /\ browserManager' = r.bm
              /\ playwright' = r.pw
              /\ events' = events \o <<"step">> \o r.events
              /\ scenario' = [scenario EXCEPT
                                !.stepsRun = @ + 1,
                                !.status = IF result = "PASSED" THEN @ ELSE result]
              /\ pc' = IF result = "PASSED" THEN "steps" ELSE "after"
    /\ UNCHANGED <<configError, merge, fn, testDataManager, lastStored, driverFails, recordTrace, currentFeatureUri, debugConsole, lastCleanup,
                   lastAfter, prev, startedUris, scenariosRun>>

EndSteps ==
    /\ pc = "steps"
    /\ pc' = "after"
    /\ UNCHANGED <<configError, merge, fn, testDataManager, lastStored, driverFails, browserManager, playwright, recordTrace, currentFeatureUri,
                   scenario, world, debugConsole, events, lastCleanup, lastAfter,
                   prev, startedUris, scenariosRun>>

\* Faulty variant: an After hook without the try/catch around the screenshot
AfterHook_NoCatch(w, bm, status, dbg, shotFails, readFails) ==
    LET nameDefined == "scenarioName" \in DOMAIN w.scenarioData
        failed == status = "FAILED"
        attempt == failed /\ nameDefined
        a == IF attempt THEN attachScreenshot(w, bm, shotFails, readFails)
             ELSE [world |-> w, threw |-> FALSE]
        escaped == failed /\ (~nameDefined \/ a.threw)
    IN  IF escaped
        THEN [world |-> a.world, debug |-> dbg, threw |-> TRUE,
              attempted |-> attempt, caught |-> FALSE]
        ELSE [world |-> [a.world EXCEPT !.scenarioData = clearScenarioData(@)],
              debug |-> IF dbg = "true" THEN "unset" ELSE dbg,
              threw |-> FALSE, attempted |-> attempt, caught |-> FALSE]

\* Scenario After hook: on FAILED try to attach a screenshot (the try block
\* starts with scenarioName.replace, which throws when the name was never
\* stored), then clear the scenario data and reset DEBUG_CONSOLE.
AfterHook(w, bm, status, dbg, shotFails, readFails) ==
    LET nameDefined == "scenarioName" \in DOMAIN w.scenarioData
        failed == status = "FAILED"
        attempt == failed /\ nameDefined
        a == IF attempt THEN attachScreenshot(w, bm, shotFails, readFails)
             ELSE [world |-> w, threw |-> FALSE]
    IN  [world |-> [a.world EXCEPT !.scenarioData = clearScenarioData(@)],
         debug |-> IF dbg = "true" THEN "unset" ELSE dbg,
         threw |-> FALSE,
         attempted |-> attempt,
         caught |-> failed /\ (~nameDefined \/ a.threw)]

After ==
    /\ pc = "after"
    /\ \E shotFails \in FileFaults, readFails \in FileFaults :
          LET h == AfterHook(world, browserManager, scenario.status, debugConsole,
                             shotFails, readFails)
          IN  /\ world' = h.world
              /\ debugConsole' = h.debug
              /\ lastAfter' = [ran |-> TRUE, status |-> scenario.status,
                               attempted |-> h.attempted, threw |-> h.threw,
                               shotFailed |-> scenario.status = "FAILED"
                                   /\ h.world.attachments = world.attachments]
    /\ prev' = [uri |-> scenario.uri, hooksOk |-> scenario.hooksOk,
                featureHookThrew |-> "scenarioName" \notin DOMAIN world.scenarioData,
                page |-> world.page, bm |-> browserManager]
    /\ pc' = "ready"
    /\ UNCHANGED <<configError, merge, fn, testDataManager, lastStored, driverFails, browserManager, playwright, recordTrace, currentFeatureUri,
                   scenario, events, lastCleanup, startedUris, scenariosRun>>

\* AfterAll: final cleanup if the browser is still ready.
AfterAll ==
    /\ pc = "ready"
    /\ \E cf \in CleanupFaults :
          LET c == cleanup(browserManager, playwright, recordTrace, cf)
          IN  IF isReady(browserManager)
              THEN /\ browserManager' = c.bm
                   /\ playwright' = c.pw
                   /\ lastCleanup' = [called |-> TRUE, error |-> c.error,
                                      threw |-> c.threw, bmAfter |-> c.bm,
                                      next |-> "none"]
              ELSE UNCHANGED <<browserManager, playwright, lastCleanup>>
    /\ pc' = "done"
    /\ UNCHANGED <<configError, merge, fn, testDataManager, lastStored, driverFails, recordTrace, currentFeatureUri, scenario, world, debugConsole,
                   events, lastAfter, prev, startedUris, scenariosRun>>

Next ==
    \/ BeforeAll
    \/ StartScenario
    \/ FeatureBefore
    \/ ScenarioBefore
    \/ TagBefore
    \/ RunStep
    \/ EndSteps
    \/ After
    \/ AfterAll

Spec == Init /\ [][Next]_vars

\* the runs in which no driver call throws
InitNoFaults == Init /\ ~driverFails

SpecNoFaults == InitNoFaults /\ [][Next]_vars

TypeOK ==
    /\ pc \in {"beforeAll", "aborted", "ready", "featureBefore", "scenarioBefore",
               "tagBefore", "steps", "after", "done"}
    /\ scenariosRun \in 0..MaxScenarios
    /\ playwright.launched \in 0..MaxScenarios
    /\ debugConsole \in EnvDebugValues


\* ------------------------------------------- deepMerge as a specification

hookVars == <<pc, browserManager, playwright, recordTrace, driverFails, currentFeatureUri,
              scenario, world, debugConsole, events, lastCleanup, lastAfter,
              prev, startedUris, scenariosRun, testDataManager, lastStored,
              configError>>

\* the hooks have not started and stay where they are
HooksIdle ==
    /\ pc = "beforeAll"
    /\ browserManager = [browser |-> Null, context |-> Null, page |-> Null,
                         isInitialized |-> FALSE]
    /\ playwright = [launched |-> 0, browsers |-> {}, contexts |-> {}, pages |-> {}]
    /\ recordTrace = FALSE
    /\ driverFails = FALSE
    /\ currentFeatureUri = NoUri
    /\ scenario = NoScenario
    /\ world = NewWorld
    /\ debugConsole = "unset"
    /\ events = <<>>
    /\ lastCleanup = NoCleanup
    /\ lastAfter = NoAfter
    /\ prev = NoPrev
    /\ startedUris = {}
    /\ scenariosRun = 0
    /\ testDataManager = NewTestDataManager
    /\ lastStored = EmptyData
    /\ configError = FALSE

InitMerge ==
    /\ HooksIdle
    /\ fn = NoCall
    /\ \E target \in Objects : merge = [NoMerge EXCEPT !.target = target]

\* a call deepMerge(target, source) with any override
DeepMergeCall ==
    /\ ~merge.done
    /\ \E source \in Objects :
          merge' = [merge EXCEPT !.source = source,
                                 !.result = deepMerge(merge.target, source),
                                 !.done = TRUE]
    /\ UNCHANGED <<hookVars, fn>>

NextMerge == DeepMergeCall

SpecMerge == InitMerge /\ [][NextMerge]_vars

\* ---------------------------------------------------------------- claims

PastFeatureHook == pc \in {"scenarioBefore", "tagBefore", "steps", "after"}

PastBeforeHooks == pc \in {"tagBefore", "steps", "after"}

Has(e) == \E i \in 1..Len(events) : events[i] = e

\* C1: when the feature-level Before hook sees a new feature URI while a
\* browser is ready, cleanup() of the prior instance returns before
\* initializeBrowser() is called or launches anything, and neither a cleanup
\* nor a launch happens after a step of that scenario has started.
C1_CleanupThenLaunchThenSteps ==
    (scenario.mustClean /\ PastFeatureHook) =>
        /\ Len(events) >= 1
        /\ events[1] = "cleanup"
        /\ \A i \in 2..Len(events) : events[i] # "cleanup"
        /\ \A i, j \in 1..Len(events) :
              (i < j /\ events[i] = "step") => events[j] \notin {"cleanup", "launch"}

C1_Witness ==
    /\ scenario.mustClean
    /\ pc = "after"
    /\ Len(events) >= 3
    /\ events[1] = "cleanup"
    /\ events[2] = "launch"
    /\ Has("step")

\* C2: at most one launched browser is open at any time, and it is the one
\* whose handle the BrowserManager holds: no handle is overwritten or
\* dropped while its browser is open.
C2_AtMostOneOpenBrowser ==
    /\ Cardinality(playwright.browsers) <= 1
    /\ playwright.browsers \subseteq {browserManager.browser}

C4_OneLaunchPerFeature ==
    pc = "done" => playwright.launched = Cardinality(startedUris)

\* C5: once AfterAll has finished, no browser, context or page opened by
\* the BrowserManager is still open.
C5_NothingOpenAfterAfterAll ==
    pc = "done" =>
        /\ playwright.browsers = {}
        /\ playwright.contexts = {}
        /\ playwright.pages = {}

\* C6: cleanup() never propagates an error: whatever failed inside it, the
\* call returns normally and the calling hook goes on (the feature-level
\* hook to initializeBrowser(), AfterAll to its end).
C6_CleanupNeverThrows ==
    lastCleanup.called =>
        /\ ~lastCleanup.threw
        /\ lastCleanup.next = "none" => pc = "done"

C6_Witness ==
    /\ lastCleanup.called
    /\ lastCleanup.error
    /\ lastCleanup.next # "none"

\* C7: after cleanup() returns the manager holds no page, context or
\* browser, isReady() is false, and the next initializeBrowser() launches.
C7_CleanupResetsManager ==
    lastCleanup.called =>
        /\ lastCleanup.bmAfter.page = Null
        /\ lastCleanup.bmAfter.context = Null
        /\ lastCleanup.bmAfter.browser = Null
        /\ ~isReady(lastCleanup.bmAfter)
        /\ lastCleanup.next # "noop"

\* C8: the After hook calls attachScreenshot exactly when the scenario's
\* result status is FAILED.
C8_ScreenshotIffFailed ==
    lastAfter.ran => (lastAfter.attempted <=> lastAfter.status = "FAILED")

\* C9: when no screenshot gets attached for a failed scenario (no page, the
\* screenshot call throws, the file cannot be read), the After hook still
\* returns normally, the scenario data is cleared and DEBUG_CONSOLE is not
\* left at 'true'.
C9_ScreenshotFailureDoesNotAbort ==
    (lastAfter.ran /\ lastAfter.shotFailed /\ pc \in {"ready", "done"}) =>
        /\ ~lastAfter.threw
        /\ world.scenarioData = EmptyData
        /\ debugConsole # "true"

C9_Witness ==
    /\ lastAfter.ran
    /\ lastAfter.shotFailed
    /\ lastAfter.attempted
    /\ pc = "ready"
    /\ scenario.debugTag
    /\ scenario.stepsRun > 0


\* the per-key rule of the claim for values that hold no nested objects
C10_InnerRule(t, s, r) ==
    /\ DOMAIN t.f \subseteq DOMAIN r.f
    /\ \A k \in AllKeys :
          IF Get(s, k) # Undefined THEN Get(r, k) = Get(s, k)
          ELSE Get(r, k) = Get(t, k)

\* C10: for every key the result of deepMerge(target, override) holds the
\* recursive merge when both values are non-null objects, the override value
\* when the override has the key with a value other than undefined and the
\* two are not both objects, and the target value when the override lacks
\* the key or has it as undefined; every key of the target is in the result.
C10_DeepMergePerKey ==
    merge.done =>
        /\ DOMAIN merge.target.f \subseteq DOMAIN merge.result.f
        /\ \A k \in AllKeys :
              LET tv == Get(merge.target, k)
                  sv == Get(merge.source, k)
                  rv == Get(merge.result, k)
              IN  IF IsObject(tv) /\ IsObject(sv)
                  THEN IsObject(rv) /\ C10_InnerRule(tv, sv, rv)
                  ELSE IF sv # Undefined THEN rv = sv
                  ELSE rv = tv

C10_Witness ==
    /\ merge.done
    /\ \E k \in Keys :
          /\ IsObject(Get(merge.target, k))
          /\ IsObject(Get(merge.source, k))
          /\ \E j \in Keys : j \in DOMAIN merge.target.f[k].f
                             /\ j \notin DOMAIN merge.source.f[k].f
          /\ \E j \in Keys : j \in DOMAIN merge.source.f[k].f
                             /\ merge.source.f[k].f[j] \in Prims
    /\ \E k \in Keys : k \in DOMAIN merge.source.f /\ merge.source.f[k] = Undefined
                       /\ k \in DOMAIN merge.target.f

\* ------------------------------------------------------ generateHealthInfo

NameIds == 1..(MaxPrim + 1)
Names == {Prim(p) : p \in NameIds}
ListIndices == <<"0", "1", "2">>

\* the lists of names with at most n entries, as JavaScript arrays
ListsUpTo(n) ==
    {Arr(fs) : fs \in UNION {[{ListIndices[i] : i \in 1..m} -> Names] : m \in 0..n}}

\* generateMedications(): 0..3 names; generateMedicalConditions(): 0..2
MedicationDefaults == ListsUpTo(Len(ListIndices))
ConditionDefaults == ListsUpTo(Len(ListIndices) - 1)

\* the overrides callers pass: each list-valued field absent or a list
ListOverrides == ListsUpTo(Len(ListIndices) - 1)
HealthOverrides ==
    {Obj(fs) : fs \in FieldsOver({"medications", "medicalConditions"}, ListOverrides)}

\* the generated default record (the fields that matter for the merge)
HealthDefaults(meds, conds) ==
    Obj([k \in {"weight", "medications", "medicalConditions"} |->
            IF k = "medications" THEN meds
            ELSE IF k = "medicalConditions" THEN conds
            ELSE Prim(MaxPrim)])

\* generateHealthInfo(overrides): deepMerge(healthInfo, overrides)
generateHealthInfo(meds, conds, overrides) ==
    deepMerge(HealthDefaults(meds, conds), overrides)

InitHealth ==
    /\ HooksIdle
    /\ fn = NoCall
    /\ merge = NoMerge

GenerateHealthInfoCall ==
    /\ ~merge.done
    /\ \E meds \in MedicationDefaults, conds \in ConditionDefaults,
          overrides \in HealthOverrides :
          merge' = [target |-> HealthDefaults(meds, conds),
                    source |-> overrides,
                    result |-> generateHealthInfo(meds, conds, overrides),
                    done |-> TRUE]
    /\ UNCHANGED <<hookVars, fn>>

NextHealth == GenerateHealthInfoCall

SpecHealth == InitHealth /\ [][NextHealth]_vars

\* the entries of a list-valued field, by index
Entries(x) == x.f

\* C11: an override given for a list-valued field wins: with
\* medicalConditions = [] the returned medicalConditions has no entry, and
\* with a two-entry medications override the returned medications has
\* exactly those two entries, whatever the generated defaults.
C11_ListOverrideWins ==
    merge.done =>
        /\ (Get(merge.source, "medicalConditions") = Arr(NoFields))
              => Entries(merge.result.f["medicalConditions"]) = NoFields
        /\ ("medications" \in DOMAIN merge.source.f
            /\ DOMAIN merge.source.f["medications"].f = {"0", "1"})
              => Entries(merge.result.f["medications"])
                     = Entries(merge.source.f["medications"])

\* ------------------------------------------ validateConfig as a specification

InitConfig ==
    /\ HooksIdle
    /\ merge = NoMerge
    /\ \E env \in Environments :
          fn = [op |-> "validateConfig", env |-> env, done |-> FALSE, threw |-> FALSE]

ValidateConfigCall ==
    /\ fn.op = "validateConfig"
    /\ ~fn.done
    /\ fn' = [fn EXCEPT !.done = TRUE, !.threw = validateConfig(fn.env)]
    /\ UNCHANGED <<hookVars, merge>>

NextConfig == ValidateConfigCall

SpecConfig == InitConfig /\ [][NextConfig]_vars

\* C12: validateConfig() returns normally exactly when the browser name is
\* one of the four valid ones, the base URL starts with http, the viewport
\* width is a number >= 320 and the viewport height is a number >= 240.
C12_ValidateConfigIff ==
    (fn.op = "validateConfig" /\ fn.done) =>
        LET b == getBrowserConfig(fn.env)
            t == getTestConfig(fn.env)
        IN  ~fn.threw <=>
              /\ b.browser \in {Chromium, Firefox, Webkit, Chrome}
              /\ startsWith(t.baseURL, Http)
              /\ ~b.width.nan /\ b.width.n >= 320
              /\ ~b.height.nan /\ b.height.n >= 240

\* ---------------------------------------------------------------------------
\* CucumberReportGenerator.calculateSummary (src/utils/cucumber-report.ts) and
\* the summary printed by the AfterAll hook (src/unnamed/part_000), both fed
\* the same cucumber JSON report, one array entry at a time.

MaxFeatures == 2
MaxElements == 2
MaxReportSteps == 1

\* step.result.status values; NoResult is a step without a result object
NoResult == "none"
StepStatuses == {"passed", "failed", "skipped", "undefined"}
StepResults == StepStatuses \cup {NoResult}
StepLists == UNION {[1..n -> StepResults] : n \in 0..MaxReportSteps}

\* scenario.steps is an array or is missing
NoSteps == [missing |-> TRUE, list |-> <<>>]
StepsOf(list) == [missing |-> FALSE, list |-> list]
ElementTypes == {"scenario", "background"}
Elements == [type : ElementTypes,
             steps : {NoSteps} \cup {StepsOf(list) : list \in StepLists}]

RECURSIVE IntToStr(_)
\* the decimal digits of a natural number
IntToStr(n) ==
    IF n < 10 THEN <<Digits[n + 1]>>
    ELSE Append(IntToStr(n \div 10), Digits[(n % 10) + 1])

\* Faulty variant: the quotient is cut after two decimals
toFixed2_Truncate(num, den) ==
    LET h == (10000 * num) \div den
    IN  IntToStr(h \div 100) \o <<".">>
        \o <<Digits[((h % 100) \div 10) + 1], Digits[(h % 10) + 1]>>

\* ((num / den) * 100).toFixed(2): the nearest multiple of 0.01, the larger
\* one of two equally near, printed with two decimals
toFixed2(num, den) ==
    LET h == (2 * 10000 * num + den) \div (2 * den)
    IN  IntToStr(h \div 100) \o <<".">>
        \o <<Digits[((h % 100) \div 10) + 1], Digits[(h % 10) + 1]>>

ZeroRate == <<"0", ".", "0", "0">>
NotPrinted == <<>>

EmptySummary ==
    [features |-> [total |-> 0, passed |-> 0, failed |-> 0],
     scenarios |-> [total |-> 0, passed |-> 0, failed |-> 0, skipped |-> 0],
     steps |-> [total |-> 0, passed |-> 0, failed |-> 0, skipped |-> 0],
     successRate |-> ZeroRate]

\* the callback of scenario.steps.forEach
visitStep(acc, step) ==
    LET counted == [acc EXCEPT !.summary.steps.total = @ + 1]
    IN  IF step = NoResult THEN counted
        ELSE CASE step = "passed" ->
                    [counted EXCEPT !.summary.steps.passed = @ + 1]
               [] step = "failed" ->
                    [counted EXCEPT !.summary.steps.failed = @ + 1,
                                    !.scenarioHasFailed = TRUE,
                                    !.featureHasFailed = TRUE]
               [] step = "skipped" ->
                    [counted EXCEPT !.summary.steps.skipped = @ + 1,
                                    !.scenarioHasSkipped = TRUE]
               [] OTHER -> counted

RECURSIVE forEachStep(_, _, _)
forEachStep(acc, steps, i) ==
    IF i > Len(steps) THEN acc
    ELSE forEachStep(visitStep(acc, steps[i]), steps, i + 1)

\* Faulty variant: a skipped scenario is counted as passed as well
countScenario_SkippedAlsoPassed(scenarios, hasFailed, hasSkipped) ==
    IF hasFailed THEN [scenarios EXCEPT !.failed = @ + 1]
    ELSE IF hasSkipped THEN [scenarios EXCEPT !.skipped = @ + 1, !.passed = @ + 1]
    ELSE [scenarios EXCEPT !.passed = @ + 1]

\* "Determine scenario status"
countScenario(scenarios, hasFailed, hasSkipped) ==
    IF hasFailed THEN [scenarios EXCEPT !.failed = @ + 1]
    ELSE IF hasSkipped THEN [scenarios EXCEPT !.skipped = @ + 1]
    ELSE [scenarios EXCEPT !.passed = @ + 1]

\* the callback of feature.elements.forEach in calculateSummary
visitElement(acc, element) ==
    IF element.type # "scenario" THEN acc
    ELSE
        LET start == [summary |-> [acc.summary EXCEPT !.scenarios.total = @ + 1],
                      featureHasFailed |-> acc.featureHasFailed,
                      scenarioHasFailed |-> FALSE,
                      scenarioHasSkipped |-> FALSE]
            after == IF element.steps.missing THEN start
                     ELSE forEachStep(start, element.steps.list, 1)
        IN  [summary |-> [after.summary EXCEPT
                            !.scenarios = countScenario(@, after.scenarioHasFailed,
                                                        after.scenarioHasSkipped)],
             featureHasFailed |-> after.featureHasFailed]

\* "Determine feature status"
countFeature(summary, featureHasFailed) ==
    IF featureHasFailed THEN [summary EXCEPT !.features.failed = @ + 1]
    ELSE [summary EXCEPT !.features.passed = @ + 1]

\* "Calculate duration and success rate"
calculateSuccessRate(summary) ==
    IF summary.scenarios.total > 0
    THEN [summary EXCEPT !.successRate =
                            toFixed2(summary.scenarios.passed, summary.scenarios.total)]
    ELSE summary

\* scenario.steps?.some(step => step.result?.status === status)
some(steps, status) ==
    ~steps.missing /\ \E i \in 1..Len(steps.list) : steps.list[i] = status

NoCounts == [total |-> 0, passed |-> 0, failed |-> 0, skipped |-> 0]

\* Faulty variant: a skipped step does not make the scenario skipped
afterAllElement_NoSkipped(counts, element) ==
    IF element.type # "scenario" THEN counts
    ELSE
        LET hasFailedStep == some(element.steps, "failed")
            counted == [counts EXCEPT !.total = @ + 1]
        IN  IF hasFailedStep THEN [counted EXCEPT !.failed = @ + 1]
            ELSE [counted EXCEPT !.passed = @ + 1]

\* the callback of feature.elements.forEach in the AfterAll hook
afterAllElement(counts, element) ==
    IF element.type # "scenario" THEN counts
    ELSE
        LET hasFailedStep == some(element.steps, "failed")
            hasSkippedStep == some(element.steps, "skipped")
            counted == [counts EXCEPT !.total = @ + 1]
        IN  IF hasFailedStep THEN [counted EXCEPT !.failed = @ + 1]
            ELSE IF hasSkippedStep THEN [counted EXCEPT !.skipped = @ + 1]
            ELSE [counted EXCEPT !.passed = @ + 1]

\* the "Success Rate" line of the AfterAll hook, NotPrinted when it is left out
afterAllSuccessRate(counts) ==
    IF counts.total > 0 THEN toFixed2(counts.passed, counts.total)
    ELSE NotPrinted

\* The report is read entry by entry: loc is "report" between two features
\* and "feature" inside one; entries and scenarioElements count what was read.
InitReport ==
    /\ HooksIdle
    /\ merge = NoMerge
    /\ fn = [op |-> "calculateSummary", loc |-> "report",
             summary |-> EmptySummary, featureHasFailed |-> FALSE,
             elements |-> "missing", visited |-> 0,
             entries |-> 0, scenarioElements |-> 0,
             afterAll |-> NoCounts, printed |-> NotPrinted]

\* report.forEach: the next feature, with or without an elements array
ReportFeature ==
    /\ fn.op = "calculateSummary"
    /\ fn.loc = "report"
    /\ fn.entries < MaxFeatures
    /\ \E elements \in {"missing", "array"} :
          fn' = [fn EXCEPT !.loc = "feature",
                           !.summary.features.total = @ + 1,
                           !.featureHasFailed = FALSE,
                           !.elements = elements,
                           !.visited = 0,
                           !.entries = @ + 1]
    /\ UNCHANGED <<hookVars, merge>>

\* feature.elements.forEach: the next element, seen by both summaries
ReportElement ==
    /\ fn.op = "calculateSummary"
    /\ fn.loc = "feature"
    /\ fn.elements = "array"
    /\ fn.visited < MaxElements
    /\ \E element \in Elements :
          LET acc == visitElement([summary |-> fn.summary,
                                   featureHasFailed |-> fn.featureHasFailed],
                                  element)
          IN  fn' = [fn EXCEPT !.summary = acc.summary,
                               !.featureHasFailed = acc.featureHasFailed,
                               !.visited = @ + 1,
                               !.scenarioElements =
                                    IF element.type = "scenario" THEN @ + 1 ELSE @,
                               !.afterAll = afterAllElement(@, element)]
    /\ UNCHANGED <<hookVars, merge>>

\* the end of the feature callback
ReportFeatureEnd ==
    /\ fn.op = "calculateSummary"
    /\ fn.loc = "feature"
    /\ fn' = [fn EXCEPT !.loc = "report",
                        !.summary = countFeature(@, fn.featureHasFailed)]
    /\ UNCHANGED <<hookVars, merge>>

\* the end of the report: calculateSummary returns, AfterAll prints
ReportReturn ==
    /\ fn.op = "calculateSummary"
    /\ fn.loc = "report"
    /\ fn' = [fn EXCEPT !.loc = "done",
                        !.summary = calculateSuccessRate(@),
                        !.printed = afterAllSuccessRate(fn.afterAll)]
    /\ UNCHANGED <<hookVars, merge>>

NextReport ==
    \/ ReportFeature
    \/ ReportElement
    \/ ReportFeatureEnd
    \/ ReportReturn

SpecReport == InitReport /\ [][NextReport]_vars

ReportDone == fn.op = "calculateSummary" /\ fn.loc = "done"

\* C13: calculateSummary counts every element of type 'scenario' in exactly
\* one of passed, failed, skipped and every feature in exactly one of passed,
\* failed; features.total is the number of entries of the report.
C13_CountsPartition ==
    ReportDone =>
        LET s == fn.summary.scenarios
            f == fn.summary.features
        IN  /\ s.total = fn.scenarioElements
            /\ s.passed + s.failed + s.skipped = s.total
            /\ f.total = fn.entries
            /\ f.passed + f.failed = f.total

C13_Witness ==
    /\ ReportDone
    /\ fn.summary.scenarios.failed > 0
    /\ fn.summary.scenarios.skipped > 0
    /\ fn.summary.scenarios.passed > 0
    /\ fn.summary.scenarios.total < fn.summary.steps.total + 1
    /\ fn.scenarioElements < MaxFeatures * MaxElements
    /\ fn.summary.features.failed > 0 /\ fn.summary.features.passed > 0

\* the number of hundredths a rate string "d...d.dd" denotes, -1 for any
\* string of another form
Hundredths(rate) ==
    LET n == Len(rate)
    IN  IF /\ n >= 4
           /\ rate[n - 2] = "."
           /\ \A i \in (1..n) \ {n - 2} : IsDigit(rate[i])
        THEN ParseDigits(SubSeq(rate, 1, n - 3) \o SubSeq(rate, n - 1, n), 1, 0)
        ELSE 0 - 1

\* h hundredths is passed / total * 100 rounded to two decimals
IsRounded(h, passed, total) ==
    /\ h >= 0
    /\ 2 * (h * total - 10000 * passed) <= total
    /\ 2 * (10000 * passed - h * total) <= total

\* C14: with a positive scenario total the success rate of calculateSummary
\* and of the AfterAll summary is passed / total * 100 rounded to two
\* decimals; with no scenario counted calculateSummary reports '0.00' and
\* AfterAll computes no rate.
C14_SuccessRateRounded ==
    ReportDone =>
        LET s == fn.summary.scenarios
            a == fn.afterAll
        IN  /\ s.total > 0 => IsRounded(Hundredths(fn.summary.successRate),
                                        s.passed, s.total)
            /\ a.total > 0 => IsRounded(Hundredths(fn.printed), a.passed, a.total)
            /\ s.total = 0 => fn.summary.successRate = ZeroRate
            /\ a.total = 0 => fn.printed = NotPrinted

\* two of three scenarios passed: 66.666... is reported as 66.67
C14_Witness ==
    /\ ReportDone
    /\ fn.summary.scenarios.total = 3
    /\ fn.summary.scenarios.passed = 2
    /\ fn.summary.successRate = <<"6", "6", ".", "6", "7">>
    /\ fn.printed = <<"6", "6", ".", "6", "7">>

\* ---------------------------------------------------------------------------
\* Steps that use the scenario data of the world and the data storage of
\* the TestDataManager singleton, run between the hooks above.

StoreKeys == {"claimCustomer", "claimPolicy"}

\* a value that names the scenario and the step that wrote it
WrittenHere == scenariosRun * 10 + scenario.stepsRun + 1
WrittenIn(value) == value \div 10

\* a passing step that calls this.setScenarioData('userData', value)
SetScenarioDataStep ==
    /\ pc = "steps"
    /\ scenario.stepsRun < MaxSteps
    /\ world' = [world EXCEPT
                    !.scenarioData = setScenarioData(@, "userData", WrittenHere)]
    /\ scenario' = [scenario EXCEPT !.stepsRun = @ + 1]
    /\ events' = events \o <<"step">>
    /\ UNCHANGED <<configError, merge, fn, testDataManager, lastStored, driverFails, browserManager,
                   playwright, recordTrace, currentFeatureUri, debugConsole,
                   lastCleanup, lastAfter, prev, startedUris, scenariosRun, pc>>

\* a passing step that calls storeData(key, value)
StoreDataStep ==
    /\ pc = "steps"
    /\ scenario.stepsRun < MaxSteps
    /\ \E key \in StoreKeys :
          /\ testDataManager' = storeData(testDataManager, key, WrittenHere)
          /\ lastStored' = [k \in DOMAIN lastStored \cup {key} |->
                               IF k = key THEN WrittenHere ELSE lastStored[k]]
    /\ scenario' = [scenario EXCEPT !.stepsRun = @ + 1]
    /\ events' = events \o <<"step">>
    /\ UNCHANGED <<configError, merge, fn, driverFails, browserManager, playwright, recordTrace,
                   currentFeatureUri, world, debugConsole, lastCleanup, lastAfter,
                   prev, startedUris, scenariosRun, pc>>

\* a passing step that calls clearStoredData()
ClearStoredDataStep ==
    /\ pc = "steps"
    /\ scenario.stepsRun < MaxSteps
    /\ testDataManager' = clearStoredData(testDataManager)
    /\ lastStored' = EmptyData
    /\ scenario' = [scenario EXCEPT !.stepsRun = @ + 1]
    /\ events' = events \o <<"step">>
    /\ UNCHANGED <<configError, merge, fn, driverFails, browserManager, playwright, recordTrace,
                   currentFeatureUri, world, debugConsole, lastCleanup, lastAfter,
                   prev, startedUris, scenariosRun, pc>>

NextData ==
    \/ BeforeAll
    \/ StartScenario
    \/ FeatureBefore
    \/ ScenarioBefore
    \/ TagBefore
    \/ RunStep
    \/ SetScenarioDataStep
    \/ StoreDataStep
    \/ ClearStoredDataStep
    \/ EndSteps
    \/ After
    \/ AfterAll

\* the data steps are followed through the runs without driver faults
InitData == InitNoFaults /\ ~recordTrace /\ debugConsole = "unset"

SpecData == InitData /\ [][NextData]_vars

\* C15: once the After hook of a scenario has run the scenario data map is
\* empty, and every value getScenarioData returns was set in the scenario
\* that reads it.
C15_ScenarioDataScoped ==
    /\ (pc \in {"ready", "done"} /\ scenariosRun > 0) => world.scenarioData = EmptyData
    /\ \A key \in DOMAIN world.scenarioData :
          LET value == getScenarioData(world.scenarioData, key)
          IN  IF key = "userData" THEN WrittenIn(value) = scenariosRun
              ELSE value = scenariosRun

\* a later scenario reads the key an earlier scenario had set
C15_Witness ==
    /\ scenariosRun >= 2
    /\ pc = "after"
    /\ prev.hooksOk
    /\ "userData" \in DOMAIN world.scenarioData
    /\ WrittenIn(getScenarioData(world.scenarioData, "userData")) = scenariosRun

UpperCase == <<"A", "B", "C", "D", "E", "F", "G", "H", "I", "J", "K", "L", "M", "N", "O", "P", "Q", "R", "S", "T", "U", "V", "W", "X", "Y", "Z">>
LowerCase == <<"a", "b", "c", "d", "e", "f", "g", "h", "i", "j", "k", "l", "m", "n", "o", "p", "q", "r", "s", "t", "u", "v", "w", "x", "y", "z">>

\* String.prototype.toLowerCase on the characters used here
toLowerCase(str) ==
    [i \in 1..Len(str) |->
        IF \E u \in 1..Len(UpperCase) : UpperCase[u] = str[i]
        THEN LowerCase[CHOOSE u \in 1..Len(UpperCase) : UpperCase[u] = str[i]]
        ELSE str[i]]

\* a JavaScript value that is a string, or one that is not
Str(s) == [t |-> "string", s |-> s]
NotAString == [t |-> "object", s |-> <<>>]

\* the pageUrls table of getPageUrl
pageUrls ==
    {[name |-> <<"h", "o", "m", "e">>, path |-> <<"/">>],
     [name |-> <<"l", "o", "g", "i", "n">>, path |-> <<"/", "l", "o", "g", "i", "n">>],
     [name |-> <<"d", "a", "s", "h", "b", "o", "a", "r", "d">>, path |-> <<"/", "d", "a", "s", "h", "b", "o", "a", "r", "d">>],
     [name |-> <<"p", "r", "o", "f", "i", "l", "e">>, path |-> <<"/", "p", "r", "o", "f", "i", "l", "e">>],
     [name |-> <<"s", "e", "t", "t", "i", "n", "g", "s">>, path |-> <<"/", "s", "e", "t", "t", "i", "n", "g", "s">>],
     [name |-> <<"q", "u", "o", "t", "e">>, path |-> <<"/", "q", "u", "o", "t", "e">>],
     [name |-> <<"p", "o", "l", "i", "c", "y">>, path |-> <<"/", "p", "o", "l", "i", "c", "y">>],
     [name |-> <<"c", "l", "a", "i", "m", "s">>, path |-> <<"/", "c", "l", "a", "i", "m", "s">>],
     [name |-> <<"a", "b", "o", "u", "t">>, path |-> <<"/", "a", "b", "o", "u", "t">>],
     [name |-> <<"c", "o", "n", "t", "a", "c", "t">>, path |-> <<"/", "c", "o", "n", "t", "a", "c", "t">>]}

\* the all-lower-case property names an object literal inherits from
\* Object.prototype; their values are a function and an object, not strings
InheritedKeys == {<<"c", "o", "n", "s", "t", "r", "u", "c", "t", "o", "r">>,
                  <<"_", "_", "p", "r", "o", "t", "o", "_", "_">>}

\* pageUrls[key] || fallback
lookupPageUrl(key, fallback) ==
    IF \E e \in pageUrls : e.name = key
    THEN Str((CHOOSE e \in pageUrls : e.name = key).path)
    ELSE IF key \in InheritedKeys THEN NotAString
    ELSE Str(fallback)

HttpScheme == <<"h", "t", "t", "p", ":", "/", "/">>
HttpsScheme == <<"h", "t", "t", "p", "s", ":", "/", "/">>

\* getPageUrl(pageName)
getPageUrl(pageName) ==
    IF startsWith(pageName, HttpScheme) \/ startsWith(pageName, HttpsScheme)
    THEN Str(pageName)
    ELSE lookupPageUrl(toLowerCase(pageName), <<"/">> \o toLowerCase(pageName))

\* navigateToPage(url) on an open page: the URL handed to page.goto, or the
\* TypeError of url.startsWith when url is not a string
navigateToPage(url, baseURL) ==
    IF url.t # "string" THEN [threw |-> TRUE, fullUrl |-> <<>>]
    ELSE [threw |-> FALSE,
          fullUrl |-> IF startsWith(url.s, Http) THEN url.s ELSE baseURL \o url.s]

PageNames ==
    {<<"h", "o", "m", "e">>,
     <<"H", "o", "m", "e">>,
     <<"L", "O", "G", "I", "N">>,
     <<"l", "o", "g", "i", "n">>,
     <<"d", "a", "s", "h", "b", "o", "a", "r", "d">>,
     <<"p", "r", "o", "f", "i", "l", "e">>,
     <<"S", "e", "t", "t", "i", "n", "g", "s">>,
     <<"q", "u", "o", "t", "e">>,
     <<"p", "o", "l", "i", "c", "y">>,
     <<"c", "l", "a", "i", "m", "s">>,
     <<"A", "b", "o", "u", "t">>,
     <<"c", "o", "n", "t", "a", "c", "t">>,
     <<"h", "o", "m", "e", "p", "a", "g", "e">>,
     <<"P", "r", "i", "c", "i", "n", "g">>,
     <<>>,
     <<"h", "t", "t", "p", ":", "/", "/", "x", ".", "i", "o">>,
     <<"h", "t", "t", "p", "s", ":", "/", "/", "x", ".", "i", "o", "/", "a">>,
     <<"H", "T", "T", "P", "S", ":", "/", "/", "x", ".", "i", "o">>,
     <<"h", "t", "t", "p", "x">>,
     <<"c", "o", "n", "s", "t", "r", "u", "c", "t", "o", "r">>,
     <<"t", "o", "S", "t", "r", "i", "n", "g">>}

NavigationBaseUrls == {Unset, Env(<<"h", "t", "t", "p", "s", ":", "/", "/", "a", "p", "p", ".", "t", "e", "s", "t">>), Env(<<"h", "t", "t", "p", ":", "/", "/", "q", "a", ":", "8", "0", "8", "0">>)}


InitNavigate ==
    /\ HooksIdle
    /\ merge = NoMerge
    /\ \E pageName \in PageNames, base \in NavigationBaseUrls :
          fn = [op |-> "navigate", pageName |-> pageName,
                env |-> [BROWSER |-> Unset, BASE_URL |-> base,
                         VIEWPORT_WIDTH |-> Unset, VIEWPORT_HEIGHT |-> Unset],
                done |-> FALSE, threw |-> FALSE, fullUrl |-> <<>>]

\* 'I navigate to the {string} page' / 'I am on the {string} page' with an
\* open page
NavigateStep ==
    /\ fn.op = "navigate"
    /\ ~fn.done
    /\ LET r == navigateToPage(getPageUrl(fn.pageName), getTestConfig(fn.env).baseURL)
       IN  fn' = [fn EXCEPT !.done = TRUE, !.threw = r.threw, !.fullUrl = r.fullUrl]
    /\ UNCHANGED <<hookVars, merge>>

NextNavigate == NavigateStep

SpecNavigate == InitNavigate /\ [][NextNavigate]_vars

\* C17: a name beginning with http:// or https:// is loaded unchanged, a
\* known page name (in any letter case) as the base URL followed by its
\* mapped path, any other name as the base URL followed by '/' and the
\* lower-cased name.
C17_PageUrlLoaded ==
    (fn.op = "navigate" /\ fn.done) =>
        LET name == fn.pageName
            base == getTestConfig(fn.env).baseURL
            known == {e \in pageUrls : e.name = toLowerCase(name)}
            expected ==
                IF startsWith(name, HttpScheme) \/ startsWith(name, HttpsScheme)
                THEN name
                ELSE IF known # {} THEN base \o (CHOOSE e \in known : TRUE).path
                ELSE base \o <<"/">> \o toLowerCase(name)
        IN  ~fn.threw /\ fn.fullUrl = expected

\* ---------------------------------------------------------------------------
\* WaitHelper.retryAsync(fn, maxRetries, delay) (src/unnamed/part_001)

MaxRetries == 5
Delays == {0, 1, 1000}

\* errors are named by the attempt that threw them; NeverReached is the
\* error of the statement after the loop
NoError == 0
NeverReached == 0 - 1

\* Faulty variant: the test for the last attempt is off by one
isLastAttempt_OffByOne(i, maxRetries) == i = maxRetries

\* if (i === maxRetries - 1)
isLastAttempt(i, maxRetries) == i = maxRetries - 1

InitRetry ==
    /\ HooksIdle
    /\ merge = NoMerge
    /\ \E maxRetries \in 0..MaxRetries, delay \in Delays :
          fn = [op |-> "retryAsync", maxRetries |-> maxRetries, delay |-> delay,
                i |-> 0, loc |-> "loop", calls |-> 0, failures |-> 0,
                log |-> <<>>, slept |-> 0, result |-> 0, thrown |-> NoError]

\* one pass of the loop body up to the sleep: await fn(), which returns a
\* result (named by the attempt) or throws
RetryAttempt ==
    /\ fn.op = "retryAsync"
    /\ fn.loc = "loop"
    /\ fn.i < fn.maxRetries
    /\ \E succeeds \in BOOLEAN :
          LET attempt == fn.calls + 1
              called == [fn EXCEPT !.calls = attempt, !.log = Append(@, "call")]
          IN  fn' = IF succeeds
                    THEN [called EXCEPT !.loc = "returned", !.result = attempt]
                    ELSE IF isLastAttempt(fn.i, fn.maxRetries)
                    THEN [called EXCEPT !.loc = "threw", !.failures = @ + 1,
                                        !.thrown = attempt]
                    ELSE [called EXCEPT !.loc = "sleep", !.failures = @ + 1]
    /\ UNCHANGED <<hookVars, merge>>

\* await this.sleep(delay), then i++
RetrySleep ==
    /\ fn.op = "retryAsync"
    /\ fn.loc = "sleep"
    /\ fn' = [fn EXCEPT !.loc = "loop", !.i = @ + 1,
                        !.log = Append(@, "sleep"), !.slept = @ + fn.delay]
    /\ UNCHANGED <<hookVars, merge>>

\* the loop ends: throw new Error('This should never be reached')
RetryLoopEnd ==
    /\ fn.op = "retryAsync"
    /\ fn.loc = "loop"
    /\ ~(fn.i < fn.maxRetries)
    /\ fn' = [fn EXCEPT !.loc = "threw", !.thrown = NeverReached]
    /\ UNCHANGED <<hookVars, merge>>

NextRetry ==
    \/ RetryAttempt
    \/ RetrySleep
    \/ RetryLoopEnd

SpecRetry == InitRetry /\ [][NextRetry]_vars

\* C18: with maxRetries >= 1, fn is invoked at most maxRetries times, one
\* attempt at a time with one sleep of delay between two attempts; the call
\* returns the result of the first attempt that succeeds, or throws the error
\* of the last attempt once all maxRetries attempts have failed, and does not
\* sleep after the last attempt.
C18_RetryAsync ==
    (fn.op = "retryAsync" /\ fn.maxRetries >= 1) =>
        /\ fn.calls <= fn.maxRetries
        /\ \A j \in 1..Len(fn.log) :
              fn.log[j] = IF j % 2 = 1 THEN "call" ELSE "sleep"
        /\ fn.slept = fn.delay * (Len(fn.log) \div 2)
        /\ fn.loc = "returned" =>
              /\ fn.result = fn.calls
              /\ fn.failures = fn.calls - 1
              /\ fn.log[Len(fn.log)] = "call"
        /\ fn.loc = "threw" =>
              /\ fn.calls = fn.maxRetries
              /\ fn.failures = fn.maxRetries
              /\ fn.thrown = fn.maxRetries
              /\ fn.log[Len(fn.log)] = "call"

\* the third of four allowed attempts succeeds after two sleeps
C18_Witness ==
    /\ fn.op = "retryAsync"
    /\ fn.maxRetries = 4
    /\ fn.loc = "returned"
    /\ fn.result = 3
    /\ fn.delay = 1000
    /\ fn.slept = 2000

\* ---------------------------------------------------------------------------
\* C19: when initializePage() has returned normally (the scenario-level
\* Before hook went on to the tag hooks) the world's page is a page that is
\* not null and has not been closed.
C19_PageOpenAfterInitializePage ==
    pc = "tagBefore" => (world.page # Null /\ world.page \in playwright.pages)

\* C20: in a run whose configuration fails validation BeforeAll rethrows
\* the error of validateConfig(): no scenario is started, no Before hook
\* calls initializeBrowser() and no browser is launched.
C20_NoLaunchAfterInvalidConfig ==
    configError =>
        /\ pc = "aborted"
        /\ scenariosRun = 0
        /\ playwright.launched = 0
        /\ ~browserManager.isInitialized

C20_Witness == configError /\ pc = "aborted" /\ playwright.launched = 0

\* ---------------------------------------------------------------------------
\* C21: when initializeBrowser() fails in the feature-level Before hook the
\* error is rethrown (the scenario goes to its After hook), the manager is
\* not initialized and currentFeatureUri is left as it was, not the URI of
\* the scenario; the feature-level hook of the next scenario of that feature
\* then attempts the initialization again (a launch, or a failure to launch).
C21_FailedInitIsRetried ==
    [][/\ (pc = "featureBefore" /\ pc' = "after") =>
            /\ ~browserManager'.isInitialized
            /\ currentFeatureUri' = currentFeatureUri
            /\ currentFeatureUri' # scenario.uri
            /\ scenario'.status = "FAILED"
       /\ (pc = "featureBefore" /\ prev.featureHookThrew /\ prev.uri = scenario.uri) =>
            \/ pc' = "after"
            \/ playwright'.launched = playwright.launched + 1]_vars

\* the feature hook of a scenario launches the browser after the feature
\* hook of the previous scenario of the same feature had failed
C21_Witness ==
    /\ pc = "scenarioBefore"
    /\ prev.featureHookThrew
    /\ prev.uri = scenario.uri
    /\ currentFeatureUri = scenario.uri
    /\ isReady(browserManager)
    /\ Has("launch")

\* ---------------------------------------------------------------------------
\* C22: a call of initializeBrowser() made while isInitialized is true
\* returns normally, launches no browser, creates no context or page and
\* leaves the browser, context and page handles as they are; so the feature
\* hook that called it after a failed cleanup leaves the manager as the
\* cleanup left it.
C22_InitializeBrowserIdempotent ==
    /\ browserManager.isInitialized =>
          \A inf \in InitFailures, trace \in BOOLEAN :
              LET r == initializeBrowser(browserManager, playwright, trace, inf)
              IN  /\ r.bm = browserManager
                  /\ r.pw = playwright
                  /\ ~r.threw
                  /\ ~r.launched
    /\ (pc = "scenarioBefore" /\ scenario.mustClean
            /\ lastCleanup.bmAfter.isInitialized) =>
          /\ browserManager = lastCleanup.bmAfter
          /\ lastCleanup.next = "noop"
          /\ ~Has("launch")

\* the feature hook called initializeBrowser() on a manager that a failed
\* cleanup had left initialized
C22_Witness ==
    /\ pc = "scenarioBefore"
    /\ scenario.mustClean
    /\ lastCleanup.error
    /\ lastCleanup.bmAfter.isInitialized
    /\ lastCleanup.next = "noop"
    /\ browserManager = lastCleanup.bmAfter

\* ---------------------------------------------------------------------------
\* The BrowserManager singleton under any sequence of calls of its methods:
\* initializeBrowser, cleanup, the page methods and takeScreenshot.

PageNotInitialized == "Page not initialized"
PageNotInitializedHint == "Page not initialized. Call initializeBrowser() first."
DriverError == "driver error"
NoMessage == "none"

\* a method that checks this.page and then awaits one call on the page
PageCall(bm, message, fails) ==
    IF bm.page = Null THEN [bm |-> bm, threw |-> TRUE, error |-> message]
    ELSE [bm |-> bm, threw |-> fails,
          error |-> IF fails THEN DriverError ELSE NoMessage]

\* navigateToPage(url): the guard and page.goto, whose error is rethrown
navigateToPageCall(bm, fails) == PageCall(bm, PageNotInitializedHint, fails)

\* Faulty variant: reloadPage() without the guard, page.reload() on null
reloadPage_NoGuard(bm, fails) ==
    IF bm.page = Null THEN [bm |-> bm, threw |-> TRUE, error |-> "TypeError"]
    ELSE [bm |-> bm, threw |-> fails,
          error |-> IF fails THEN DriverError ELSE NoMessage]

reloadPage(bm, fails) == PageCall(bm, PageNotInitialized, fails)

goBack(bm, fails) == PageCall(bm, PageNotInitialized, fails)

goForward(bm, fails) == PageCall(bm, PageNotInitialized, fails)

PageMethods == {"navigateToPage", "reloadPage", "goBack", "goForward"}

\* the manager starts as the hooks find it
InitManager ==
    /\ HooksIdle
    /\ merge = NoMerge
    /\ fn = NoCall

managerFrame == <<pc, recordTrace, driverFails, currentFeatureUri, scenario, world,
                  debugConsole, events, lastCleanup, lastAfter, prev, startedUris,
                  scenariosRun, testDataManager, lastStored, configError, merge>>

ManagerInitialize ==
    /\ fn.op \in {"none", "manager"}
    /\ playwright.launched < MaxScenarios
    /\ \E inf \in InitFailures :
          LET r == initializeBrowser(browserManager, playwright, recordTrace, inf)
          IN  /\ browserManager' = r.bm
              /\ playwright' = r.pw
              /\ fn' = [op |-> "manager", method |-> "initializeBrowser",
                        before |-> browserManager, driver |-> playwright,
                        threw |-> r.threw, error |-> NoMessage, path |-> FALSE]
    /\ UNCHANGED managerFrame

ManagerCleanup ==
    /\ fn.op \in {"none", "manager"}
    /\ \E cf \in CleanupFailures :
          LET r == cleanup(browserManager, playwright, recordTrace, cf)
          IN  /\ browserManager' = r.bm
              /\ playwright' = r.pw
              /\ fn' = [op |-> "manager", method |-> "cleanup",
                        before |-> browserManager, driver |-> playwright,
                        threw |-> r.threw, error |-> NoMessage, path |-> FALSE]
    /\ UNCHANGED managerFrame

\* navigateToPage, reloadPage, goBack or goForward
ManagerPageCall ==
    /\ fn.op \in {"none", "manager"}
    /\ \E method \in PageMethods, fails \in BOOLEAN :
          LET r == CASE method = "navigateToPage" -> navigateToPageCall(browserManager, fails)
                     [] method = "reloadPage" -> reloadPage(browserManager, fails)
                     [] method = "goBack" -> goBack(browserManager, fails)
                     [] method = "goForward" -> goForward(browserManager, fails)
          IN  /\ browserManager' = r.bm
              /\ fn' = [op |-> "manager", method |-> method,
                        before |-> browserManager, driver |-> playwright,
                        threw |-> r.threw, error |-> r.error, path |-> FALSE]
    /\ UNCHANGED <<playwright, managerFrame>>

\* takeScreenshot(name): path is TRUE for a path, FALSE for null
ManagerScreenshot ==
    /\ fn.op \in {"none", "manager"}
    /\ \E shotFails \in BOOLEAN :
          fn' = [op |-> "manager", method |-> "takeScreenshot",
                 before |-> browserManager, driver |-> playwright,
                 threw |-> FALSE, error |-> NoMessage,
                 path |-> takeScreenshot(browserManager, shotFails)]
    /\ UNCHANGED <<browserManager, playwright, managerFrame>>

NextManager ==
    \/ ManagerInitialize
    \/ ManagerCleanup
    \/ ManagerPageCall
    \/ ManagerScreenshot

SpecManager == InitManager /\ [][NextManager]_vars

\* C23: while the manager holds no page, navigateToPage, reloadPage, goBack
\* and goForward throw a 'Page not initialized' error, takeScreenshot
\* returns null without throwing, and none of them changes the manager or
\* touches a handle of the driver.
C23_NoPageCalls ==
    (fn.op = "manager" /\ fn.before.page = Null) =>
        /\ fn.method \in PageMethods =>
              /\ fn.threw
              /\ fn.error \in {PageNotInitialized, PageNotInitializedHint}
              /\ browserManager = fn.before
              /\ playwright = fn.driver
        /\ fn.method = "takeScreenshot" =>
              /\ ~fn.threw
              /\ ~fn.path
              /\ browserManager = fn.before
              /\ playwright = fn.driver

\* reloadPage() called after a cleanup that closed the page and then failed
C23_Witness ==
    /\ fn.op = "manager"
    /\ fn.method = "reloadPage"
    /\ fn.before.page = Null
    /\ fn.before.isInitialized
    /\ fn.threw
    /\ fn.error = PageNotInitialized

C25_PassedOnlyIfAllStepsPassed ==
    [][(fn.op = "calculateSummary"
          /\ \/ fn'.summary.scenarios.passed > fn.summary.scenarios.passed
             \/ fn'.afterAll.passed > fn.afterAll.passed) =>
            /\ fn'.summary.steps.total > fn.summary.steps.total
            /\ fn'.summary.steps.passed - fn.summary.steps.passed
                  = fn'.summary.steps.total - fn.summary.steps.total]_vars

\* ---------------------------------------------------------------------------
\* C26: the statement after the loop of retryAsync is never reached: the
\* call returns a result of fn or throws an error that fn threw, whatever
\* maxRetries and delay are.
C26_LoopEndUnreachable ==
    fn.op = "retryAsync" =>
        /\ fn.thrown # NeverReached
        /\ fn.loc = "threw" => (fn.calls >= 1 /\ fn.thrown = fn.calls)
        /\ fn.loc = "returned" => (fn.calls >= 1 /\ fn.result = fn.calls)

\* ---------------------------------------------------------------------------
\* WaitHelper.waitForCondition(condition, timeout, interval)
\* (src/unnamed/part_001). Time is counted from startTime; evaluating the
\* condition and waking from a sleep can each take a tick longer.

MaxTimeout == 3
MaxInterval == 2
Ticks == {0, 1}

InitWait ==
    /\ HooksIdle
    /\ merge = NoMerge
    /\ \E timeout \in 0..MaxTimeout, interval \in 0..MaxInterval :
          fn = [op |-> "waitForCondition", timeout |-> timeout,
                interval |-> interval, elapsed |-> 0, loc |-> "while",
                evaluated |-> FALSE, lastPoll |-> 0, gapsOk |-> TRUE,
                held |-> FALSE, returned |-> FALSE]

\* while (Date.now() - startTime < timeout) { if (await condition()) return true
WaitPoll ==
    /\ fn.op = "waitForCondition"
    /\ fn.loc = "while"
    /\ fn.elapsed < fn.timeout
    /\ \E holds \in BOOLEAN, took \in Ticks :
          fn' = [fn EXCEPT !.evaluated = TRUE,
                           !.lastPoll = fn.elapsed,
                           !.gapsOk = @ /\ (~fn.evaluated
                                            \/ fn.elapsed - fn.lastPoll >= fn.interval),
                           !.elapsed = @ + took,
                           !.held = holds,
                           !.returned = holds,
                           !.loc = IF holds THEN "returned" ELSE "sleep"]
    /\ UNCHANGED <<hookVars, merge>>

\* await this.sleep(interval)
WaitSleep ==
    /\ fn.op = "waitForCondition"
    /\ fn.loc = "sleep"
    /\ \E late \in Ticks :
          fn' = [fn EXCEPT !.elapsed = @ + fn.interval + late, !.loc = "while"]
    /\ UNCHANGED <<hookVars, merge>>

\* the loop condition is false: throw new Error('Condition not met ...')
WaitTimeout ==
    /\ fn.op = "waitForCondition"
    /\ fn.loc = "while"
    /\ ~(fn.elapsed < fn.timeout)
    /\ fn' = [fn EXCEPT !.loc = "threw"]
    /\ UNCHANGED <<hookVars, merge>>

NextWait ==
    \/ WaitPoll
    \/ WaitSleep
    \/ WaitTimeout

SpecWait == InitWait /\ [][NextWait]_vars

\* C27: waitForCondition never returns false; it returns true at the first
\* poll at which the condition holds, two polls are at least interval apart,
\* and the timeout error is thrown only when the time elapsed has reached
\* timeout, no poll has succeeded and the condition was evaluated at least
\* once.
C27_WaitForCondition ==
    fn.op = "waitForCondition" =>
        /\ fn.gapsOk
        /\ fn.loc = "returned" => (fn.returned /\ fn.held)
        /\ fn.loc = "sleep" => ~fn.held
        /\ fn.loc = "threw" =>
              /\ fn.elapsed >= fn.timeout
              /\ ~fn.held
              /\ fn.evaluated

\* ---------------------------------------------------------------------------
\* C28: the DEBUG_CONSOLE flag of an @debug scenario is in effect only during
\* that scenario, and a value that was in the environment before the run is
\* left as it was. A scenario that is not tagged @debug never switches the
\* flag on, so whatever value it runs with is not its own: its After hook
\* must leave process.env.DEBUG_CONSOLE exactly as it found it.
C28_DebugFlagScopedToScenario ==
    [][(pc = "after" /\ ~scenario.debugTag) => debugConsole' = debugConsole]_vars

\* ---------------------------------------------------------------------------
\* Negative-test generators of TestDataManager and the validators of
\* CustomWorld (src/utils/testDataManager.ts, framework-documentation.md).

MaxSample == 3

\* the decimal digits of a non-negative integer, as a template literal
\* prints it
RECURSIVE numberToString(_)
numberToString(n) ==
    IF n < Len(Digits) THEN <<Digits[n + 1]>>
    ELSE Append(numberToString(n \div Len(Digits)), Digits[(n % Len(Digits)) + 1])

\* A pattern is a sequence of tokens: "d" is \d, "-?" an optional hyphen,
\* any other token a literal character. The pattern is anchored at both ends.
RECURSIVE Matches(_, _)
Matches(pattern, str) ==
    IF pattern = <<>> THEN str = <<>>
    ELSE IF Head(pattern) = "-?"
         THEN \/ Matches(Tail(pattern), str)
              \/ str # <<>> /\ Head(str) = "-" /\ Matches(Tail(pattern), Tail(str))
    ELSE IF Head(pattern) = "d"
         THEN str # <<>> /\ IsDigit(Head(str)) /\ Matches(Tail(pattern), Tail(str))
    ELSE str # <<>> /\ Head(str) = Head(pattern) /\ Matches(Tail(pattern), Tail(str))

\* n times \d
DigitRun(n) == [i \in 1..n |-> "d"]

\* [^\s@]+ on str[from..to]
NoSpaceNoAt(str, from, to) ==
    /\ from <= to
    /\ \A i \in from..to : str[i] \notin {" ", "@"}

\* /^[^\s@]+@[^\s@]+\.[^\s@]+$/
validateEmail(email) ==
    \E at \in 1..Len(email), dot \in 1..Len(email) :
        /\ at < dot
        /\ email[at] = "@"
        /\ email[dot] = "."
        /\ NoSpaceNoAt(email, 1, at - 1)
        /\ NoSpaceNoAt(email, at + 1, dot - 1)
        /\ NoSpaceNoAt(email, dot + 1, Len(email))

\* /^\d{3}-?\d{3}-?\d{4}$/
validatePhone(phone) ==
    Matches(DigitRun(3) \o <<"-?">> \o DigitRun(3) \o <<"-?">> \o DigitRun(4), phone)

\* /^\d{3}-?\d{2}-?\d{4}$/
validateSSN(ssn) ==
    Matches(DigitRun(3) \o <<"-?">> \o DigitRun(2) \o <<"-?">> \o DigitRun(4), ssn)

\* /^\d{5}(-\d{4})?$/
validateZipCode(zipCode) ==
    \/ Matches(DigitRun(5), zipCode)
    \/ Matches(DigitRun(5) \o <<"-">> \o DigitRun(4), zipCode)

generateInvalidEmail ==
    {<<"i", "n", "v", "a", "l", "i", "d", "-", "e", "m", "a", "i", "l">>,
     <<"t", "e", "s", "t", "@">>,
     <<"@", "d", "o", "m", "a", "i", "n", ".", "c", "o", "m">>,
     <<"t", "e", "s", "t", "@", "d", "o", "m", "a", "i", "n">>,
     <<"t", "e", "s", "t", ".", ".", "t", "e", "s", "t", "@", "d", "o", "m", "a", "i", "n", ".", "c", "o", "m">>,
     <<>>}

generateInvalidPhone ==
    {<<"1", "2", "3">>,
     <<"a", "b", "c", "-", "d", "e", "f", "-", "g", "h", "i", "j">>,
     <<"+", "+", "+", "1", "2", "3", "4", "5", "6", "7", "8", "9">>,
     <<"1", "2", "3", "4", "5", "6", "7", "8", "9", "0", "1", "2", "3", "4", "5", "6">>,
     <<>>}

generateInvalidSSN ==
    {<<"1", "2", "3", "-", "4", "5", "-", "6", "7", "8">>,
     <<"0", "0", "0", "-", "0", "0", "-", "0", "0", "0", "0">>,
     <<"1", "2", "3", "-", "0", "0", "-", "0", "0", "0", "0">>,
     <<"1", "2", "3", "4", "5", "6", "7", "8", "9">>,
     <<>>}

generateInvalidZipCode ==
    {<<"1", "2", "3", "4">>,
     <<"1", "2", "3", "4", "5", "6">>,
     <<"A", "B", "C", "D", "E">>,
     <<"0", "0", "0", "0", "0">>,
     <<>>}

\* faker.number.int({min, max}): the low end of the range and its maximum
Sample(min, max) == {n \in min..(min + MaxSample) : n <= max} \cup {max}

\* `${int 100..999}-${int 10..99}-${int 1000..9999}`
generateSSN ==
    {numberToString(area) \o <<"-">> \o numberToString(group)
        \o <<"-">> \o numberToString(serial) :
        area \in Sample(100, 999), group \in Sample(10, 99),
        serial \in Sample(1000, 9999)}

InitGenerate ==
    /\ HooksIdle
    /\ merge = NoMerge
    /\ fn = NoCall

Generated(generator, value, valid) ==
    /\ fn' = [op |-> "generate", generator |-> generator, value |-> value,
              valid |-> valid]
    /\ UNCHANGED <<hookVars, merge>>

GenerateInvalidEmail ==
    \E value \in generateInvalidEmail :
        Generated("generateInvalidEmail", value, validateEmail(value))

GenerateInvalidPhone ==
    \E value \in generateInvalidPhone :
        Generated("generateInvalidPhone", value, validatePhone(value))

GenerateInvalidSSN ==
    \E value \in generateInvalidSSN :
        Generated("generateInvalidSSN", value, validateSSN(value))

GenerateInvalidZipCode ==
    \E value \in generateInvalidZipCode :
        Generated("generateInvalidZipCode", value, validateZipCode(value))

GenerateSSN ==
    \E value \in generateSSN :
        Generated("generateSSN", value, validateSSN(value))

NextGenerate ==
    \/ GenerateInvalidEmail
    \/ GenerateInvalidPhone
    \/ GenerateInvalidSSN
    \/ GenerateInvalidZipCode
    \/ GenerateSSN

SpecGenerate == InitGenerate /\ [][NextGenerate]_vars

\* C29: every value a negative-test generator can return is rejected by the
\* matching validator, and every string produced by generateSSN passes
\* validateSSN.
C29_InvalidDataIsRejected ==
    fn.op = "generate" =>
        IF fn.generator = "generateSSN" THEN fn.valid ELSE ~fn.valid

\* ---------------------------------------------------------------------------
\* TestDataManager.generateInsuranceCustomer(overrides)
\* (src/utils/testDataManager.ts). The record keeps the fields the derived
\* fields are built from; the other faker fields play no part in them.

MaxWords == 2

Letters == <<"a", "b", "c", "d">>

\* what faker can return for a name, a street, a city, ...
Words == {<<Letters[i]>> : i \in 1..MaxWords}

\* a value only a caller supplies
OverrideWord == <<"Z">>

PersonalKeys == {"firstName", "lastName", "fullName"}
AddressKeys == {"street", "city", "state", "zipCode", "fullAddress"}

\* DeepPartial<InsuranceCustomer>: any part may be left out
PartialOver(keys) == {Obj([k \in d |-> Prim(OverrideWord)]) : d \in SUBSET keys}

CustomerOverrides ==
    {Obj(fs) : fs \in
        UNION {[d -> PartialOver(PersonalKeys) \cup PartialOver(AddressKeys)] :
                  d \in SUBSET {"personalInfo", "address"}}}

WellTypedOverrides ==
    {o \in CustomerOverrides :
        /\ "personalInfo" \in DOMAIN o.f => DOMAIN o.f.personalInfo.f \subseteq PersonalKeys
        /\ "address" \in DOMAIN o.f => DOMAIN o.f.address.f \subseteq AddressKeys}

\* `${firstName} ${lastName}`
fullNameOf(firstName, lastName) == firstName \o <<" ">> \o lastName

\* `${street}, ${city}, ${state} ${zipCode}`
fullAddressOf(street, city, state, zipCode) ==
    street \o <<",", " ">> \o city \o <<",", " ">> \o state \o <<" ">> \o zipCode

\* generateInsuranceCustomer(overrides): build the customer from the faker
\* draws, set address.fullAddress, then deepMerge the overrides over it.
generateInsuranceCustomer(firstName, lastName, street, city, state, zipCode, overrides) ==
    LET customer ==
            Obj([k \in {"personalInfo", "address"} |->
                IF k = "personalInfo"
                THEN Obj([firstName |-> Prim(firstName), lastName |-> Prim(lastName),
                          fullName |-> Prim(fullNameOf(firstName, lastName))])
                ELSE Obj([street |-> Prim(street), city |-> Prim(city),
                          state |-> Prim(state), zipCode |-> Prim(zipCode),
                          country |-> Prim(<<"U", "S", "A">>),
                          fullAddress |->
                              Prim(fullAddressOf(street, city, state, zipCode))])])
    IN  deepMerge(customer, overrides)

InitCustomer ==
    /\ HooksIdle
    /\ merge = NoMerge
    /\ fn = NoCall

GenerateInsuranceCustomer ==
    /\ fn = NoCall
    /\ \E firstName \in Words, lastName \in Words, street \in Words,
          city \in Words, state \in Words, zipCode \in Words,
          overrides \in WellTypedOverrides :
          fn' = [op |-> "generateInsuranceCustomer", overrides |-> overrides,
                 customer |-> generateInsuranceCustomer(firstName, lastName, street,
                                  city, state, zipCode, overrides)]
    /\ UNCHANGED <<hookVars, merge>>

NextCustomer == GenerateInsuranceCustomer

SpecCustomer == InitCustomer /\ [][NextCustomer]_vars

\* C30: in every customer returned by generateInsuranceCustomer(overrides),
\* personalInfo.fullName is firstName + ' ' + lastName of the returned record
\* and address.fullAddress is 'street, city, state zipCode' of the returned
\* address.
C30_DerivedFieldsAgree ==
    fn.op = "generateInsuranceCustomer" =>
        LET p == fn.customer.f.personalInfo.f
            a == fn.customer.f.address.f
        IN  /\ p.fullName.v = fullNameOf(p.firstName.v, p.lastName.v)
            /\ a.fullAddress.v = fullAddressOf(a.street.v, a.city.v, a.state.v, a.zipCode.v)

====
